---- MODULE Spec2Model ----
(***************************************************************************)
(* Plugin worker pool (packages/nx/src/project-graph/plugins/plugin-pool.ts) *)
(*                                                                         *)
(* The host forks one worker process per plugin, talks to it over an IPC   *)
(* channel and keeps, per worker, a Map from transaction id to the         *)
(* resolver / rejector of the promise handed to the caller.               *)
(*                                                                         *)
(* Granularity.  One action is one synchronous run of host code: a host    *)
(* call, one 'message' listener run, one 'exit' listener run, or one       *)
(* promise reaction (a microtask: the .finally callback of a transaction,  *)
(* the continuation of the await in shutdownPluginWorker).  The child's    *)
(* 'exit' event is delivered from the event loop, so it is taken only when *)
(* no promise reaction is runnable.  'message' events are emitted through  *)
(* process.nextTick, several of which may run before promise reactions do, *)
(* so a message may be handled while reactions are still queued.           *)
(*                                                                         *)
(* The worker is any process: what it writes to the channel is chosen when *)
(* the host handles it, among a load-result, a result for a request that   *)
(* has reached it, and a result for an identifier the host never issued.   *)
(* Messages written before it died are still delivered until the channel   *)
(* closes.  An exception thrown out of a listener is an uncaught exception *)
(* of the host: Node emits process 'exit' and the host exits.              *)
(*                                                                         *)
(* When the host exits its memory is gone: the state keeps only what       *)
(* outlives it, the worker processes and the signals they were sent, and   *)
(* the callbacks the 'exit' sweep called.                                  *)
(***************************************************************************)
EXTENDS Integers, Sequences, FiniteSets, TLC

\* ------------------------------------------------------------------ bounds
MaxCalls == 2      \* operation calls issued per worker
MaxShutdowns == 2  \* invocations of one worker's shutdown function

\* ---------------------------------------------------------------- universe
Workers == {"w1", "w2"}
Ops == {"createNodes", "createDependencies", "processProjectGraph"}
Names == {"demo"}
Payloads == {"r1", "r2"}
Errors == {"e1"}
ExitCodes == {"1", "null"}

\* worker.pid, as it is printed in the exit error
Pid(w) == "pid-" \o w

NoName == ""
NoTx == <<"", "", 0>>
\* an identifier the host never generates (no plugin is named "ghost")
BogusTx == <<"ghost", "createNodes", 0>>
NoCall == <<>>

VARIABLES
  hostState,        \* "running" | "exited"
  now,              \* the last reading of performance.now()
  cleanupFunctions, \* the module's Set of cleanup callbacks, one per worker
  cacheClears,      \* number of nxPluginCache.clear() calls
  uncaught,         \* the uncaught exception that ended the host: "" (none) |
                    \* "message" (thrown by the 'message' listener) | "send"
                    \* (the worker's 'error' event of a failed send, unhandled)
  proc,             \* per worker: "none" | "running" | "dead" | "exited"
  exitCode,         \* per worker: worker.exitCode ("" until the exit is handled)
  pluginNames,      \* the module's Map worker -> plugin name (NoName: absent)
  loadPromise,      \* per worker: the promise returned by loadRemoteNxPlugin
  exitListener,     \* per worker: exitHandler is attached to 'exit'
  pendingPromises,  \* per worker: Map tx -> call (index into calls[w])
  calls,            \* per worker: the promises made by registerPendingPromise
  sent,             \* per worker: tx of the requests that reached the worker
  channel,          \* per worker: the IPC channel can still deliver messages
  shutdownCalls,    \* per worker: number of calls of its shutdown function
  shutdowns,        \* per worker: the runs of shutdownPluginWorker that are at
                    \* their await, each the set of calls it waits for
  kills,            \* per worker: number of worker.kill('SIGINT')
  inCall            \* the host is inside registerPendingPromise, between the
                    \* executor and pending.set: <<worker, call>>, or NoCall

vars == <<hostState, now, cleanupFunctions, cacheClears, uncaught, proc,
          exitCode, pluginNames, loadPromise, exitListener, pendingPromises,
          calls, sent, channel, shutdownCalls, shutdowns, kills, inCall>>

\* ----------------------------------------------------------------- helpers
EmptyMap == [t \in {} |-> 0]

MapSet(m, k, v) == [t \in (DOMAIN m) \cup {k} |-> IF t = k THEN v ELSE m[t]]

MapDelete(m, k) == [t \in (DOMAIN m) \ {k} |-> m[t]]

Range(s) == {s[i] : i \in DOMAIN s}

RemoveAt(s, i) == SubSeq(s, 1, i - 1) \o SubSeq(s, i + 1, Len(s))

\* The outcome of a promise.  by: "none" (pending) | "result" (resolved) |
\* "error" (rejected with a reported error) | "exit" (rejected by exitHandler)
Outcome(by, data, who, code) ==
  [by |-> by, data |-> data, who |-> who, code |-> code]

Unsettled == Outcome("none", "", "", "")

\* new Error(`Plugin worker ${pluginNames.get(worker) ?? worker.pid} exited
\* unexpectedly with code ${worker.exitCode}`)
ExitError(w, code) ==
  Outcome("exit", "",
          IF pluginNames[w] # NoName THEN pluginNames[w] ELSE Pid(w),
          code)

\* ---------------------------------------------------------------- messages
Msg(type, success, name, pat, hasCD, hasPPG, tx, value) ==
  [type |-> type, success |-> success, name |-> name,
   createNodesPattern |-> pat, hasCreateDependencies |-> hasCD,
   hasProcessProjectGraph |-> hasPPG, tx |-> tx, value |-> value]

LoadResults ==
  {Msg("load-result", TRUE, n, pat, cd, ppg, NoTx, "") :
      n \in Names, pat \in {"", "*.json"}, cd \in BOOLEAN, ppg \in BOOLEAN}
  \cup {Msg("load-result", FALSE, NoName, "", FALSE, FALSE, NoTx, e) : e \in Errors}

ResultType(op) == op \o "Result"

ResultsFor(tx, payloads) ==
  {Msg(ResultType(tx[2]), TRUE, NoName, "", FALSE, FALSE, tx, p) : p \in payloads}
  \cup {Msg(ResultType(tx[2]), FALSE, NoName, "", FALSE, FALSE, tx, e) : e \in Errors}

\* What a worker may put on the channel: a load-result, a result for a request
\* it has received (again, if it likes), or a result for an unknown identifier
\* (one such message: the handler throws before it reads the payload).
WorkerMsgs(w, loads, payloads) ==
  loads \cup UNION {ResultsFor(tx, payloads) : tx \in sent[w]}
  \cup {Msg(ResultType(BogusTx[2]), TRUE, NoName, "", FALSE, FALSE, BogusTx, "r1")}

\* A handle that has every operation, whatever the load-result reports
HandleOpsUngated(m) == Ops

\* The operations of the RemotePlugin built from a successful load-result
HandleOps(m) ==
  (IF m.createNodesPattern # "" THEN {"createNodes"} ELSE {})
  \cup (IF m.hasCreateDependencies THEN {"createDependencies"} ELSE {})
  \cup (IF m.hasProcessProjectGraph THEN {"processProjectGraph"} ELSE {})

\* -------------------------------------------------------------------- Init
Init ==
  /\ hostState = "running"
  /\ now = 0
  /\ cleanupFunctions = {}
  /\ cacheClears = 0
  /\ uncaught = ""
  /\ proc = [w \in Workers |-> "none"]
  /\ exitCode = [w \in Workers |-> ""]
  /\ pluginNames = [w \in Workers |-> NoName]
  /\ loadPromise = [w \in Workers |-> [st |-> "pending", ops |-> {}, err |-> ""]]
  /\ exitListener = [w \in Workers |-> FALSE]
  /\ pendingPromises = [w \in Workers |-> EmptyMap]
  /\ calls = [w \in Workers |-> <<>>]
  /\ sent = [w \in Workers |-> {}]
  /\ channel = [w \in Workers |-> FALSE]
  /\ shutdownCalls = [w \in Workers |-> 0]
  /\ shutdowns = [w \in Workers |-> <<>>]
  /\ kills = [w \in Workers |-> 0]
  /\ inCall = NoCall

\* ------------------------------------------------------------ promises
\* resolver(v) / rejector(e) of a promise: the first call decides the outcome,
\* a call on a settled promise does nothing.  p is a record of calls[w].
\* A resolver / rejector that lacks the settled check: the last call wins
SettleAgain(p, o) == [p EXCEPT !.out = o]

Settle(p, o) == IF p.out.by = "none" THEN [p EXCEPT !.out = o] ELSE p

\* The calls whose entry is in the worker's Map
Registered(w) == Range(pendingPromises[w])

\* A transaction's inner promise is settled and its .finally callback has not
\* run yet: that callback is a queued promise reaction.
FinallyQueued(w, c) ==
  /\ c \in DOMAIN calls[w]
  /\ calls[w][c].out.by # "none"
  /\ ~calls[w][c].fin

\* The promise stored in the Map is the one .finally returns: it settles, with
\* the inner promise's outcome, after the callback has run.
OuterState(w, c) ==
  IF ~calls[w][c].fin THEN "pending"
  ELSE IF calls[w][c].out.by = "result" THEN "fulfilled" ELSE "rejected"

\* shutdownPluginWorker without the wait: the kill follows at once
PromiseAllNoWait(w, snap) == "fulfilled"

\* Promise.all over the snapshot: rejected as soon as one member is rejected,
\* fulfilled when every member is fulfilled, pending otherwise.
PromiseAll(w, snap) ==
  IF \E c \in snap : OuterState(w, c) = "rejected" THEN "rejected"
  ELSE IF \A c \in snap : OuterState(w, c) = "fulfilled" THEN "fulfilled"
  ELSE "pending"

\* The await of a run of shutdownPluginWorker can be resumed
ResumeQueued(w, i) ==
  /\ i \in DOMAIN shutdowns[w]
  /\ PromiseAll(w, shutdowns[w][i]) # "pending"

\* Host code runs to completion: no listener, reaction or other call runs
\* while the host is inside registerPendingPromise
HostIdle == inCall = NoCall

\* No promise reaction is runnable: the host is back in the event loop
Quiescent ==
  \A w \in Workers :
    /\ \A c \in DOMAIN calls[w] : ~FinallyQueued(w, c)
    /\ \A i \in DOMAIN shutdowns[w] : ~ResumeQueued(w, i)

\* --------------------------------------------------------- the host exits
\* worker.kill('SIGINT'): a signal is sent while the host holds the process
\* handle, which it drops when it handles the child's exit
Kill(w) == IF proc[w] \in {"running", "dead"} THEN kills[w] + 1 ELSE kills[w]

\* process.on('exit'): fn() for every fn of cleanupFunctions, each running
\* shutdownPluginWorker up to its await, and then the host is gone.  With
\* drain the promise reactions queued by then still run (the event loop ran
\* dry), so a worker whose Promise.all is fulfilled at once is sent the
\* signal; without it (process.exit(), an uncaught exception) none runs.
ExitSweep(drain) ==
  /\ hostState' = "exited"
  /\ kills' = [w \in Workers |->
        IF drain /\ w \in cleanupFunctions /\ PromiseAll(w, Registered(w)) = "fulfilled"
        THEN Kill(w) ELSE kills[w]]
  /\ now' = 0
  /\ cacheClears' = 0
  /\ pluginNames' = [w \in Workers |-> NoName]
  /\ loadPromise' = [w \in Workers |-> [st |-> "pending", ops |-> {}, err |-> ""]]
  /\ exitListener' = [w \in Workers |-> FALSE]
  /\ pendingPromises' = [w \in Workers |-> EmptyMap]
  /\ calls' = [w \in Workers |-> <<>>]
  /\ sent' = [w \in Workers |-> {}]
  /\ channel' = [w \in Workers |-> FALSE]
  /\ shutdownCalls' = [w \in Workers |-> 0]
  /\ shutdowns' = [w \in Workers |-> <<>>]
  /\ inCall' = NoCall
  /\ UNCHANGED <<cleanupFunctions, proc, exitCode>>

\* ------------------------------------------------------------- host calls
\* loadRemoteNxPlugin(plugin, root)
Spawn(w) ==
  /\ hostState = "running"
  /\ HostIdle
  /\ proc[w] = "none"
  /\ proc' = [proc EXCEPT ![w] = "running"]
  /\ channel' = [channel EXCEPT ![w] = TRUE]
  /\ cleanupFunctions' = cleanupFunctions \cup {w}
  /\ exitListener' = [exitListener EXCEPT ![w] = TRUE]
  /\ UNCHANGED <<exitCode, hostState, now, cacheClears, uncaught, pluginNames,
                 loadPromise, pendingPromises, calls, sent, shutdownCalls, shutdowns, kills, inCall>>

\* tx = pluginName + ':' + operation + ':' + performance.now()
TxId(w, op, t) == <<pluginNames[w], op, t>>

\* worker.send(createMessage({ type: op, payload: { ..., tx } }))
Send(w, tx) == sent' = [sent EXCEPT ![w] = @ \cup {tx}]

\* registerPendingPromise(tx, pending, callback), the new Promise: the
\* executor keeps the resolver and the rejector and runs callback(), which
\* sends the request; pending.set has not run yet.
RegisterPendingPromise(w, tx) ==
  /\ calls' = [calls EXCEPT ![w] = Append(@, [tx |-> tx, out |-> Unsettled, fin |-> FALSE])]
  /\ Send(w, tx)
  /\ inCall' = <<w, Len(calls[w]) + 1>>

\* registerPendingPromise, after the promise is made: pending.set(tx, ...)
\* stores it, replacing an entry that has the same tx, and the call returns.
PendingSet(w) ==
  /\ hostState = "running"
  /\ inCall # NoCall
  /\ inCall[1] = w
  /\ pendingPromises' = [pendingPromises EXCEPT ![w] =
        MapSet(@, calls[w][inCall[2]].tx, inCall[2])]
  /\ inCall' = NoCall
  /\ UNCHANGED <<hostState, now, cleanupFunctions, cacheClears, uncaught,
                 proc, exitCode, pluginNames, loadPromise, exitListener,
                 calls, sent, channel, shutdownCalls, shutdowns, kills>>

\* performance.now() never goes back; it may read what it read last time.
\* A reading matters only through the equality of identifiers, so it either
\* repeats the last one, when that makes an identifier again that some worker
\* has used, or is the next one.
ClockReadings(w, op) ==
  {now + 1} \cup
  (IF \E v \in Workers : \E c \in DOMAIN calls[v] : calls[v][c].tx = TxId(w, op, now)
   THEN {now} ELSE {})

\* plugin.createNodes / createDependencies / processProjectGraph of the handle,
\* called when performance.now() reads t.  worker.send to a process that is
\* gone fails: the worker emits 'error', nothing listens to it, and the host
\* ends with that uncaught exception.
Call(w, op, t) ==
  /\ hostState = "running"
  /\ HostIdle
  /\ loadPromise[w].st = "resolved"
  /\ op \in loadPromise[w].ops
  /\ Len(calls[w]) < MaxCalls
  /\ t \in ClockReadings(w, op)
  /\ IF proc[w] = "running"
     THEN /\ now' = t
          /\ RegisterPendingPromise(w, TxId(w, op, t))
          /\ UNCHANGED <<hostState, cleanupFunctions, cacheClears, uncaught,
                         proc, exitCode, pluginNames, loadPromise,
                         exitListener, pendingPromises, channel,
                         shutdownCalls, shutdowns, kills>>
     ELSE /\ uncaught' = "send"
          /\ ExitSweep(FALSE)

\* ------------------------------------------------------------- the worker
\* The worker process terminates (a crash, an exit, a signal); the host has
\* not been told yet.  No promise reaction tells a dead process from a running
\* one, so the death is placed between the host's turns.
ProcExit(w) ==
  /\ hostState = "running"
  /\ HostIdle
  /\ proc[w] = "running"
  /\ Quiescent
  /\ proc' = [proc EXCEPT ![w] = "dead"]
  /\ UNCHANGED <<exitCode, hostState, now, cleanupFunctions, cacheClears, uncaught,
                 pluginNames, loadPromise, exitListener, pendingPromises,
                 calls, sent, channel, shutdownCalls, shutdowns, kills, inCall>>

\* The channel of a worker whose exit the host has handled is drained and closes
ChannelClose(w) ==
  /\ hostState = "running"
  /\ HostIdle
  /\ proc[w] = "exited"
  /\ channel[w]
  /\ Quiescent
  /\ channel' = [channel EXCEPT ![w] = FALSE]
  /\ UNCHANGED <<hostState, now, cleanupFunctions, cacheClears, uncaught, proc, exitCode,
                 pluginNames, loadPromise, exitListener,
                 pendingPromises, calls, sent, shutdownCalls, shutdowns, kills, inCall>>

\* ---------------------------------------------------------------- shutdown
\* A cleanup function that runs the cleanup of every worker of the Set
CleanupFunctionEvery(ws) ==
  /\ exitListener' = [w \in Workers |->
        IF w \in ws \cup cleanupFunctions THEN FALSE ELSE exitListener[w]]
  /\ cacheClears' = cacheClears + Cardinality(ws \cup cleanupFunctions)
  /\ shutdowns' = [w \in Workers |->
        IF w \in ws \cup cleanupFunctions
        THEN Append(shutdowns[w], Registered(w))
        ELSE shutdowns[w]]

\* cleanupFunction(), up to the await: worker.off('exit', exitHandler),
\* nxPluginCache.clear(), and the promises of the Map handed to Promise.all
CleanupFunction(ws) ==
  /\ exitListener' = [w \in Workers |-> IF w \in ws THEN FALSE ELSE exitListener[w]]
  /\ cacheClears' = cacheClears + Cardinality(ws)
  /\ shutdowns' = [w \in Workers |->
        IF w \in ws
        THEN Append(shutdowns[w], Registered(w))
        ELSE shutdowns[w]]

\* A shutdown function that leaves its callback in cleanupFunctions
ShutdownKeepsCallback(w) ==
  /\ hostState = "running"
  /\ HostIdle
  /\ proc[w] # "none"
  /\ shutdownCalls[w] < MaxShutdowns
  /\ shutdownCalls' = [shutdownCalls EXCEPT ![w] = @ + 1]
  /\ CleanupFunction({w})
  /\ UNCHANGED <<hostState, now, uncaught, proc, exitCode, pluginNames,
                 loadPromise, pendingPromises, calls, sent, channel, kills,
                 inCall, cleanupFunctions>>

\* The shutdown function returned by loadRemoteNxPlugin
Shutdown(w) ==
  /\ hostState = "running"
  /\ HostIdle
  /\ proc[w] # "none"
  /\ shutdownCalls[w] < MaxShutdowns
  /\ shutdownCalls' = [shutdownCalls EXCEPT ![w] = @ + 1]
  /\ CleanupFunction({w})
  /\ cleanupFunctions' = cleanupFunctions \ {w}
  /\ UNCHANGED <<hostState, now, uncaught, proc, exitCode, pluginNames,
                 loadPromise, pendingPromises, calls, sent, channel, kills, inCall>>

\* shutdownPluginWorker after the await: the kill when Promise.all fulfilled;
\* when it rejected the await throws and the function ends without the kill.
ShutdownResume(w, i) ==
  /\ hostState = "running"
  /\ HostIdle
  /\ ResumeQueued(w, i)
  /\ shutdowns' = [shutdowns EXCEPT ![w] = RemoveAt(@, i)]
  /\ kills' = [kills EXCEPT ![w] =
        IF PromiseAll(w, shutdowns[w][i]) = "fulfilled" THEN Kill(w) ELSE @]
  /\ UNCHANGED <<hostState, now, cleanupFunctions, cacheClears, uncaught, proc, exitCode,
                 pluginNames, loadPromise, exitListener, pendingPromises,
                 calls, sent, channel, shutdownCalls, inCall>>

\* The host process exits
HostExit(drain) ==
  /\ hostState = "running"
  /\ HostIdle
  /\ drain => Quiescent
  /\ ExitSweep(drain)
  /\ UNCHANGED uncaught

\* ------------------------------------------------------ 'message' listener
\* 'load-result': onload(handle) / onloadError(error) on the load promise
OnLoadResult(w, m) ==
  /\ pluginNames' = [pluginNames EXCEPT ![w] = IF m.success THEN m.name ELSE @]
  /\ loadPromise' = [loadPromise EXCEPT ![w] =
        IF @.st # "pending" THEN @
        ELSE IF m.success THEN [st |-> "resolved", ops |-> HandleOps(m), err |-> ""]
        ELSE [st |-> "rejected", ops |-> {}, err |-> m.value]]
  /\ UNCHANGED <<hostState, now, cleanupFunctions, cacheClears, uncaught, proc, exitCode,
                 exitListener, pendingPromises, calls, sent, channel,
                 shutdownCalls, shutdowns, kills, inCall>>

\* const { resolver, rejector } = pending.get(tx) throws when tx is not a key
LookupThrows(w, tx) == tx \notin DOMAIN pendingPromises[w]

\* A result handler whose failure branch rejects every transaction of the Map
OnOperationResultRejectAll(w, m) ==
  IF LookupThrows(w, m.tx)
  THEN /\ uncaught' = "message"
       /\ ExitSweep(FALSE)
  ELSE /\ calls' = [calls EXCEPT ![w] =
             [c \in DOMAIN calls[w] |->
                IF m.success
                THEN IF c = pendingPromises[w][m.tx]
                     THEN Settle(calls[w][c], Outcome("result", m.value, "", ""))
                     ELSE calls[w][c]
                ELSE IF c \in Registered(w)
                     THEN Settle(calls[w][c], Outcome("error", m.value, "", ""))
                     ELSE calls[w][c]]]
       /\ UNCHANGED <<hostState, now, cleanupFunctions, cacheClears, uncaught,
                      proc, exitCode, pluginNames, loadPromise, exitListener,
                      pendingPromises, sent, channel, shutdownCalls,
                      shutdowns, kills, inCall>>

\* createNodesResult / createDependenciesResult / processProjectGraphResult
OnOperationResult(w, m) ==
  IF LookupThrows(w, m.tx)
  THEN /\ uncaught' = "message"
       /\ ExitSweep(FALSE)
  ELSE /\ calls' = [calls EXCEPT ![w][pendingPromises[w][m.tx]] =
             Settle(@, IF m.success
                       THEN Outcome("result", m.value, "", "")
                       ELSE Outcome("error", m.value, "", ""))]
       /\ UNCHANGED <<hostState, now, cleanupFunctions, cacheClears, uncaught,
                      proc, exitCode, pluginNames, loadPromise, exitListener,
                      pendingPromises, sent, channel, shutdownCalls,
                      shutdowns, kills, inCall>>

\* The function createWorkerHandler returns, run on a message of the worker
HandleMessage(w, m) ==
  /\ hostState = "running"
  /\ HostIdle
  /\ channel[w]
  /\ IF m.type = "load-result" THEN OnLoadResult(w, m) ELSE OnOperationResult(w, m)

\* .finally(() => { pending.delete(tx) }) of a settled transaction
Finalize(w, c) ==
  /\ hostState = "running"
  /\ HostIdle
  /\ FinallyQueued(w, c)
  /\ pendingPromises' = [pendingPromises EXCEPT ![w] = MapDelete(@, calls[w][c].tx)]
  /\ calls' = [calls EXCEPT ![w][c].fin = TRUE]
  /\ UNCHANGED <<hostState, now, cleanupFunctions, cacheClears, uncaught, proc, exitCode,
                 pluginNames, loadPromise, exitListener, sent,
                 channel, shutdownCalls, shutdowns, kills, inCall>>

\* --------------------------------------------------------- 'exit' listener
\* An exit handler that stops after the first entry of the Map
ExitHandlerFirstOnly(w, code) ==
  [c \in DOMAIN calls[w] |->
     IF c \in Registered(w) /\ \A d \in Registered(w) : c <= d
     THEN Settle(calls[w][c], ExitError(w, code))
     ELSE calls[w][c]]

\* exitHandler: pendingPromise.rejector(new Error(...)) for every Map entry
ExitHandler(w, code) ==
  [c \in DOMAIN calls[w] |->
     IF c \in Registered(w) THEN Settle(calls[w][c], ExitError(w, code))
     ELSE calls[w][c]]

\* The child's 'exit' event reaches the host; worker.exitCode is code
ExitEvent(w, code) ==
  /\ hostState = "running"
  /\ HostIdle
  /\ proc[w] = "dead"
  /\ Quiescent
  /\ proc' = [proc EXCEPT ![w] = "exited"]
  /\ exitCode' = [exitCode EXCEPT ![w] = code]
  /\ calls' = [calls EXCEPT ![w] = IF exitListener[w] THEN ExitHandler(w, code) ELSE @]
  /\ UNCHANGED <<hostState, now, cleanupFunctions, cacheClears, uncaught,
                 pluginNames, loadPromise, exitListener,
                 pendingPromises, sent, channel, shutdownCalls, shutdowns, kills, inCall>>

\* ------------------------------------------------------------ specification
\* The load-result payloads the worker of the main specification reports: a
\* plugin with createNodes and createDependencies, one with processProjectGraph
\* only, and a failed load.
SpecLoadResults ==
  {m \in LoadResults :
      \/ ~m.success
      \/ m.createNodesPattern # "" /\ m.hasCreateDependencies /\ ~m.hasProcessProjectGraph
      \/ m.createNodesPattern = "" /\ ~m.hasCreateDependencies /\ m.hasProcessProjectGraph}

\* The result payloads the worker of the main specification sends
SpecPayloads == {"r1"}

WorkerNext(w, loads, payloads) ==
  \/ Spawn(w)
  \/ Shutdown(w)
  \/ \E op \in Ops : \E t \in ClockReadings(w, op) : Call(w, op, t)
  \/ PendingSet(w)
  \/ \E m \in WorkerMsgs(w, loads, payloads) : HandleMessage(w, m)
  \/ \E c \in DOMAIN calls[w] : Finalize(w, c)
  \/ \E i \in DOMAIN shutdowns[w] : ShutdownResume(w, i)
  \/ ProcExit(w)
  \/ \E code \in ExitCodes : ExitEvent(w, code)
  \/ ChannelClose(w)

Next ==
  \/ \E w \in {"w1"} : WorkerNext(w, SpecLoadResults, SpecPayloads)
  \/ \E drain \in BOOLEAN : HostExit(drain)

Spec == Init /\ [][Next]_vars

\* A worker that may report any load-result payload, for what the handle is
\* built from; the shutdown function, which does not touch the handle, is left
\* uncalled.
GatingNext ==
  \E w \in {"w1"} :
    \/ Spawn(w)
    \/ \E op \in Ops : \E t \in ClockReadings(w, op) : Call(w, op, t)
    \/ PendingSet(w)
    \/ \E m \in WorkerMsgs(w, LoadResults, SpecPayloads) : HandleMessage(w, m)
    \/ \E c \in DOMAIN calls[w] : Finalize(w, c)
    \/ ProcExit(w)
    \/ \E code \in ExitCodes : ExitEvent(w, code)
    \/ ChannelClose(w)

SpecGating == Init /\ [][GatingNext]_vars

\* Two workers that host a plugin of the same name with createNodes only.
\* w1 does everything a worker can; w2 is spawned, loads and has calls in
\* flight, and no event of its own settles or removes them.
PairLoadResults ==
  {m \in LoadResults :
      /\ m.success
      /\ m.createNodesPattern # ""
      /\ ~m.hasCreateDependencies
      /\ ~m.hasProcessProjectGraph}

BystanderNext(w, loads) ==
  \/ Spawn(w)
  \/ \E m \in loads : HandleMessage(w, m)
  \/ \E op \in Ops : \E t \in ClockReadings(w, op) : Call(w, op, t)
  \/ PendingSet(w)

PairNext ==
  \/ WorkerNext("w1", PairLoadResults, SpecPayloads)
  \/ BystanderNext("w2", PairLoadResults)
  \/ \E drain \in BOOLEAN : HostExit(drain)

SpecPair == Init /\ [][PairNext]_vars

\* ------------------------------------------------------------------ claims
Pending(w, c) == calls[w][c].out.by = "none"

\* The worker has exited and nothing more can reach the host about it
WorkerGone(w) ==
  /\ hostState = "running"
  /\ proc[w] = "exited"
  /\ ~channel[w]
  /\ Quiescent

\* C1: when the exit of a worker whose shutdown function has not been called
\* is handled, every transaction in its registry is rejected with an error that
\* names the worker (plugin name, or pid when no name is known) and carries
\* worker.exitCode; none stays pending.
C1_CrashDrainsAllPending ==
  [][\A w \in Workers :
       (proc[w] = "dead" /\ proc'[w] = "exited" /\ shutdownCalls[w] = 0)
         => \A tx \in DOMAIN pendingPromises[w] :
              calls'[w][pendingPromises[w][tx]].out =
                Outcome("exit", "",
                        IF pluginNames[w] # NoName THEN pluginNames[w] ELSE Pid(w),
                        exitCode'[w])]_vars

\* Two calls were outstanding when the worker crashed; both are rejected with
\* the error naming the plugin and the exit code
C1_Witness ==
  \E w \in Workers :
    /\ proc[w] = "exited"
    /\ shutdownCalls[w] = 0
    /\ Len(calls[w]) >= 2
    /\ \A c \in DOMAIN calls[w] :
         calls[w][c].out = Outcome("exit", "", "demo", exitCode[w])

\* C2: once a worker has exited and no event about it is pending, no call made
\* on it is still unsettled.
C2_NoHungCaller ==
  \A w \in Workers : WorkerGone(w) => \A c \in DOMAIN calls[w] : ~Pending(w, c)

\* C3: once a transaction's promise is settled, no later result message,
\* duplicate result or exit event changes its outcome.
C3_SingleSettlement ==
  [][hostState' = "running" =>
       \A w \in Workers : \A c \in DOMAIN calls[w] :
         ~Pending(w, c) => calls'[w][c].out = calls[w][c].out]_vars

\* A transaction is settled and its entry is still in the registry, where a
\* duplicate of its result finds its resolver and rejector
C3_Witness ==
  \E w \in Workers : \E c \in DOMAIN calls[w] :
    /\ ~Pending(w, c)
    /\ c \in Registered(w)

\* C4: calling the shutdown function settles no call, and a run of
\* shutdownPluginWorker sends the signal only when every transaction that was
\* in the registry when it was called has settled.
C4_ShutdownDrainsBeforeKill ==
  [][\A w \in Workers :
       /\ shutdownCalls'[w] > shutdownCalls[w] => calls'[w] = calls[w]
       /\ (kills'[w] > kills[w] /\ hostState' = "running")
            => \E i \in DOMAIN shutdowns[w] :
                 /\ shutdowns'[w] = RemoveAt(shutdowns[w], i)
                 /\ \A c \in shutdowns[w][i] : ~Pending(w, c)
       /\ (kills'[w] > kills[w] /\ hostState' = "exited")
            => \A c \in Registered(w) : ~Pending(w, c)]_vars

\* Shutdown was called while calls were outstanding; they have since been
\* resolved by their results, and the signal is about to be sent
C4_Witness ==
  \E w \in Workers : \E i \in DOMAIN shutdowns[w] :
    /\ shutdowns[w][i] # {}
    /\ \A c \in shutdowns[w][i] : calls[w][c].out.by = "result" /\ calls[w][c].fin
    /\ kills[w] = 0

\* C5: when shutdown sends the signal to a worker, that worker's registry is
\* empty, transactions registered after the shutdown call included.
C5_RegistryEmptyAtKill ==
  [][\A w \in Workers :
       kills'[w] > kills[w] => DOMAIN pendingPromises[w] = {}]_vars

\* C6: when the shutdown function has been called and every transaction of
\* that moment has settled, so that no run of shutdownPluginWorker is at its
\* await any more, the signal has been sent to the (still running) worker.
C6_ShutdownKills ==
  \A w \in Workers :
    (/\ hostState = "running"
     /\ shutdownCalls[w] > 0
     /\ shutdowns[w] = <<>>
     /\ proc[w] = "running")
      => kills[w] > 0

\* C7: when the host has exited (other than by an uncaught exception), every
\* worker whose callback was still in cleanupFunctions and whose process is
\* running has been sent the signal.
C7_HostExitBackstop ==
  (hostState = "exited" /\ uncaught = "")
    => \A w \in cleanupFunctions : proc[w] = "running" => kills[w] > 0

\* C8: the 'message' listener never throws, whatever transaction identifier a
\* result message carries.
C8_UnknownTxHarmless == uncaught # "message"

\* C9: once a worker has exited and no event about it is pending, the promise
\* returned by loadRemoteNxPlugin is settled.
C9_LoadSettled ==
  \A w \in Workers : WorkerGone(w) => loadPromise[w].st # "pending"

\* C10: however often a worker's shutdown function is called, the worker is
\* sent one signal at most and the cache is cleared once per worker shut down.
C10_ShutdownIdempotent ==
  /\ \A w \in Workers : kills[w] <= 1
  /\ cacheClears <= Cardinality({w \in Workers : shutdownCalls[w] > 0})

\* C11: whatever the order of the replies, a result that carries identifier t
\* settles every outstanding call that was issued with t, a success with that
\* result's payload and a failure with the reported error, and changes the
\* outcome of no other call.
C11_CorrelationById ==
  [][\A w \in Workers : \A tx \in sent[w] : \A m \in ResultsFor(tx, Payloads) :
       HandleMessage(w, m)
         => \A c \in DOMAIN calls[w] :
              IF calls[w][c].tx = tx /\ Pending(w, c)
              THEN /\ hostState' = "running"
                   /\ calls'[w][c].out =
                        Outcome(IF m.success THEN "result" ELSE "error",
                                m.value, "", "")
              ELSE hostState' = "running"
                     => calls'[w][c].out = calls[w][c].out]_vars

\* C12: when a failure result rejects a call, no other call of any worker
\* changes, every registry keeps its entries, no worker is signalled or loses
\* its channel, and the handle stays as it was, so that further calls on it are
\* registered, sent and settled as before.
C12_FailureIsolated ==
  [][\A w \in Workers : \A c \in DOMAIN calls[w] :
       (/\ Pending(w, c)
        /\ hostState' = "running"
        /\ calls'[w][c].out.by = "error")
         => /\ \A d \in DOMAIN calls[w] \ {c} : calls'[w][d] = calls[w][d]
            /\ \A v \in Workers \ {w} : calls'[v] = calls[v]
            /\ pendingPromises' = pendingPromises
            /\ sent' = sent
            /\ kills' = kills
            /\ proc' = proc
            /\ channel' = channel
            /\ exitListener' = exitListener
            /\ loadPromise' = loadPromise]_vars

\* A call has just been rejected by a failure result while another call of the
\* same worker is in flight: that one is pending and registered, the worker
\* runs and has not been signalled
C12_Witness ==
  \E w \in Workers : \E c, d \in DOMAIN calls[w] :
    /\ c # d
    /\ calls[w][c].out.by = "error"
    /\ ~calls[w][c].fin
    /\ Pending(w, d)
    /\ d \in Registered(w)
    /\ proc[w] = "running"
    /\ kills[w] = 0

\* C13: the handle a successful load-result resolves the load promise with has
\* createNodes iff the payload has a createNodes pattern, createDependencies
\* iff hasCreateDependencies and processProjectGraph iff hasProcessProjectGraph;
\* once the handle exists no message changes which operations it has.
C13_OperationGating ==
  [][\A w \in Workers :
       /\ \A m \in LoadResults :
            (loadPromise[w].st = "pending" /\ m.success /\ HandleMessage(w, m))
              => /\ loadPromise'[w].st = "resolved"
                 /\ ("createNodes" \in loadPromise'[w].ops)
                      <=> (m.createNodesPattern # "")
                 /\ ("createDependencies" \in loadPromise'[w].ops)
                      <=> m.hasCreateDependencies
                 /\ ("processProjectGraph" \in loadPromise'[w].ops)
                      <=> m.hasProcessProjectGraph
       /\ (loadPromise[w].st = "resolved" /\ hostState' = "running")
            => loadPromise'[w] = loadPromise[w]]_vars

\* A handle without createNodes and createDependencies, after a call of its
\* only operation has been answered
C13_Witness ==
  \E w \in Workers :
    /\ loadPromise[w].st = "resolved"
    /\ loadPromise[w].ops = {"processProjectGraph"}
    /\ \E c \in DOMAIN calls[w] : calls[w][c].out.by = "result" /\ calls[w][c].fin

\* C14: whenever the message handler processes a result for a request the host
\* sent and whose caller is still waiting, the transaction is in the worker's
\* registry and the handler finds it.
C14_RegisteredBeforeResponse ==
  [][\A w \in Workers : \A tx \in sent[w] : \A m \in ResultsFor(tx, Payloads) :
       (/\ HandleMessage(w, m)
        /\ \E c \in DOMAIN calls[w] : calls[w][c].tx = tx /\ Pending(w, c))
         => /\ tx \in DOMAIN pendingPromises[w]
            /\ hostState' = "running"]_vars

\* C15: when a request is sent to the worker, its transaction is already in
\* the worker's registry.
C15_RegisterThenSend ==
  [][\A w \in Workers : \A tx \in sent'[w] \ sent[w] :
       tx \in DOMAIN pendingPromises[w]]_vars

\* C16: any two calls made on one worker have different transaction
\* identifiers.
C16_UniqueTx ==
  \A w \in Workers : \A c, d \in DOMAIN calls[w] :
    c # d => calls[w][c].tx # calls[w][d].tx

\* C17: when the host has fully processed an event (it is idle and no promise
\* reaction is queued), the keys of each worker's registry are exactly the
\* identifiers of the calls whose promise is not settled.
C17_RegistryTracksPending ==
  (hostState = "running" /\ HostIdle /\ Quiescent)
    => \A w \in Workers :
         DOMAIN pendingPromises[w] =
           {calls[w][c].tx : c \in {d \in DOMAIN calls[w] : Pending(w, d)}}

\* C18: while the host runs, cleanupFunctions holds exactly the workers that
\* were spawned and whose shutdown function has not been called; an entry is
\* added only by the spawn of its worker and removed only by a call of its
\* worker's shutdown function.
C18_CleanupMembership ==
  [][/\ hostState' = "running"
          => cleanupFunctions' =
               {w \in Workers : proc'[w] # "none" /\ shutdownCalls'[w] = 0}
     /\ \A w \in cleanupFunctions' \ cleanupFunctions :
          proc[w] = "none" /\ proc'[w] = "running"
     /\ \A w \in cleanupFunctions \ cleanupFunctions' :
          hostState' = "running" /\ shutdownCalls'[w] > shutdownCalls[w]]_vars

\* One worker was shut down after its calls were answered and it crashed
\* later; the other, never shut down, still has its callback
C18_Witness ==
  \E a, b \in Workers :
    /\ hostState = "running"
    /\ shutdownCalls[a] > 0
    /\ proc[a] = "exited"
    /\ a \notin cleanupFunctions
    /\ \E c \in DOMAIN calls[a] : calls[a][c].out.by = "result"
    /\ b \in cleanupFunctions
    /\ calls[b] # <<>>

\* A message, the exit, a shutdown or a promise reaction of worker a
WorkerEvent(a) ==
  \/ \E m \in WorkerMsgs(a, LoadResults, Payloads) : HandleMessage(a, m)
  \/ \E code \in ExitCodes : ExitEvent(a, code)
  \/ Shutdown(a)
  \/ \E i \in DOMAIN shutdowns[a] : ShutdownResume(a, i)
  \/ \E c \in DOMAIN calls[a] : Finalize(a, c)

\* C19: an event of worker a leaves every other worker b alone: b's calls and
\* registry, its exit listener and shutdown runs, its cleanup callback and the
\* signals sent to it are unchanged, also when both use the same identifiers.
C19_WorkersIndependent ==
  [][\A a, b \in Workers :
       (a # b /\ WorkerEvent(a))
         => /\ kills'[b] = kills[b]
            /\ (b \in cleanupFunctions') <=> (b \in cleanupFunctions)
            /\ hostState' = "running"
                 => /\ calls'[b] = calls[b]
                    /\ pendingPromises'[b] = pendingPromises[b]
                    /\ shutdowns'[b] = shutdowns[b]
                    /\ exitListener'[b] = exitListener[b]
                    /\ loadPromise'[b] = loadPromise[b]]_vars

\* Both workers have a call with the same identifier in flight; a's worker
\* crashed and its call was rejected, b's is pending and registered, and b has
\* its callback and no signal
C19_Witness ==
  \E a, b \in Workers : \E c \in DOMAIN calls[a] : \E d \in DOMAIN calls[b] :
    /\ a # b
    /\ calls[a][c].tx = calls[b][d].tx
    /\ calls[a][c].out.by = "exit"
    /\ Pending(b, d)
    /\ d \in Registered(b)
    /\ b \in cleanupFunctions
    /\ kills[b] = 0

====
